---- MODULE Spec2Model ----
(***************************************************************************)
(* Error classification and translation layer of meilisearch-types         *)
(* (src/meilisearch-types/src/error.rs): the Code catalog, the ErrorCode   *)
(* implementations for the foreign error types, ResponseError::from_msg    *)
(* and the serde (de)serialization of ResponseError.                       *)
(*                                                                         *)
(* The code is a set of pure functions.  They are modelled as operators,   *)
(* and the state machine is one request handler that takes a failure,      *)
(* converts it into a ResponseError, renders the HTTP response, lets the   *)
(* client parse the body, and remembers the previous conversion so that    *)
(* properties relating two conversions can be stated.                      *)
(***************************************************************************)
EXTENDS Integers, Sequences, FiniteSets, TLC

VARIABLES
    pc,        \* "idle" | "built" | "responded" | "parsed"
    cur_err,   \* <<>> or <<e>>: the foreign error given to From::from
    cur_msg,   \* the message given to from_msg ("" when idle)
    cur_code,  \* the Code given to from_msg ("NoCode" when idle)
    resp,      \* <<>> or <<r>>: the ResponseError built
    response,  \* <<>> or <<h>>: the HttpResponse of error_response
    parsed,    \* <<>> or <<d>>: the result of deserializing the body
    prev,      \* <<>> or <<p>>: shape, Code and stable name of the previous conversion
    ctx,       \* per execution context: the locals of its call of From::from
    boot       \* main: its position, its options, the steps it took, its result

handler_vars == <<pc, cur_err, cur_msg, cur_code, resp, response, parsed, prev>>

\* what a step of the request handler leaves alone
outside_handler == <<ctx, boot>>

\* what a step of an execution context leaves alone
outside_contexts == <<handler_vars, boot>>

\* what a step of main leaves alone
outside_main == <<handler_vars, ctx>>

vars == <<pc, cur_err, cur_msg, cur_code, resp, response, parsed, prev, ctx, boot>>

(***************************************************************************)
(* Bounds of the model.                                                    *)
(***************************************************************************)
\* raw OS error numbers range over -1..MaxErrno
MaxErrno == 29

\* execution contexts that convert errors at the same time
NumContexts == 2

\* master keys are 0..MaxKeyLen characters long
MaxKeyLen == 17

\* meilisearch_auth::MASTER_KEY_MIN_SIZE
MASTER_KEY_MIN_SIZE == 16

Contexts == 1..NumContexts

Errnos == (0 - 1)..MaxErrno

\* the texts a caller or a foreign error's Display supplies
Texts == {"index foo not found", "disk failure"}

(***************************************************************************)
(* actix_web::http::StatusCode values used by the catalog.                 *)
(***************************************************************************)
OK == 200
BAD_REQUEST == 400
UNAUTHORIZED == 401
FORBIDDEN == 403
NOT_FOUND == 404
CONFLICT == 409
PAYLOAD_TOO_LARGE == 413
UNSUPPORTED_MEDIA_TYPE == 415
UNPROCESSABLE_ENTITY == 422
INTERNAL_SERVER_ERROR == 500

(***************************************************************************)
(* enum ErrorType and its Display.                                         *)
(***************************************************************************)
ErrorType == {"InternalError", "InvalidRequestError", "AuthenticationError"}

ErrorType_fmt_long(self) ==
    CASE self = "InternalError" -> "internal"
      [] self = "InvalidRequestError" -> "invalid_request"
      [] self = "AuthenticationError" -> "authentication"

ErrorType_fmt(self) ==
    CASE self = "InternalError" -> "internal"
      [] self = "InvalidRequestError" -> "invalid_request"
      [] self = "AuthenticationError" -> "auth"

(***************************************************************************)
(* enum Code.                                                              *)
(***************************************************************************)
Code == {
    "IoError", "NoSpaceLeftOnDevice", "TooManyOpenFiles",
    "CreateIndex", "IndexAlreadyExists", "IndexNotFound",
    "InvalidIndexUid", "InvalidMinWordLengthForTypo", "DuplicateIndexFound",
    "InvalidState", "MissingPrimaryKey", "PrimaryKeyAlreadyPresent",
    "MaxFieldsLimitExceeded", "MissingDocumentId", "InvalidDocumentId",
    "Filter", "Sort", "BadParameter",
    "BadRequest", "DatabaseSizeLimitReached", "DocumentNotFound",
    "Internal", "InvalidGeoField", "InvalidRankingRule",
    "InvalidStore", "InvalidToken", "MissingAuthorizationHeader",
    "MissingMasterKey", "DumpNotFound", "InvalidTaskDateFilter",
    "InvalidTaskStatusesFilter", "InvalidTaskTypesFilter", "InvalidTaskCanceledByFilter",
    "InvalidTaskUidsFilter", "TaskNotFound", "TaskDeletionWithEmptyQuery",
    "TaskCancelationWithEmptyQuery", "PayloadTooLarge", "RetrieveDocument",
    "SearchDocuments", "UnsupportedMediaType", "DumpAlreadyInProgress",
    "DumpProcessFailed", "UnretrievableErrorCode", "InvalidContentType",
    "MissingContentType", "MalformedPayload", "MissingPayload",
    "ApiKeyNotFound", "MissingParameter", "InvalidApiKeyActions",
    "InvalidApiKeyIndexes", "InvalidApiKeyExpiresAt", "InvalidApiKeyDescription",
    "InvalidApiKeyName", "InvalidApiKeyUid", "ImmutableField",
    "ApiKeyAlreadyExists"
}

(***************************************************************************)
(* struct ErrCode and its three constructors.                              *)
(***************************************************************************)
ErrCode_authentication_as_invalid(error_name, status_code) ==
    [status_code |-> status_code, error_name |-> error_name,
     error_type |-> "InvalidRequestError"]

ErrCode_authentication(error_name, status_code) ==
    [status_code |-> status_code, error_name |-> error_name,
     error_type |-> "AuthenticationError"]

ErrCode_internal(error_name, status_code) ==
    [status_code |-> status_code, error_name |-> error_name,
     error_type |-> "InternalError"]

ErrCode_invalid(error_name, status_code) ==
    [status_code |-> status_code, error_name |-> error_name,
     error_type |-> "InvalidRequestError"]

(***************************************************************************)
(* Code::err_code: the catalog.                                            *)
(***************************************************************************)
\* a catalog whose match ends in a catch-all arm
err_code_wildcard(self) ==
    CASE self = "IoError" -> ErrCode_invalid("io_error", UNPROCESSABLE_ENTITY)
      [] OTHER -> ErrCode_internal("internal", INTERNAL_SERVER_ERROR)

err_code(self) ==
    CASE self = "IoError" -> ErrCode_invalid("io_error", UNPROCESSABLE_ENTITY)
      [] self = "TooManyOpenFiles" -> ErrCode_invalid("too_many_open_files", UNPROCESSABLE_ENTITY)
      [] self = "NoSpaceLeftOnDevice" -> ErrCode_invalid("no_space_left_on_device", UNPROCESSABLE_ENTITY)
      [] self = "CreateIndex" -> ErrCode_internal("index_creation_failed", INTERNAL_SERVER_ERROR)
      [] self = "IndexAlreadyExists" -> ErrCode_invalid("index_already_exists", CONFLICT)
      [] self = "IndexNotFound" -> ErrCode_invalid("index_not_found", NOT_FOUND)
      [] self = "InvalidIndexUid" -> ErrCode_invalid("invalid_index_uid", BAD_REQUEST)
      [] self = "InvalidState" -> ErrCode_internal("invalid_state", INTERNAL_SERVER_ERROR)
      [] self = "MissingPrimaryKey" -> ErrCode_invalid("primary_key_inference_failed", BAD_REQUEST)
      [] self = "PrimaryKeyAlreadyPresent" -> ErrCode_invalid("index_primary_key_already_exists", BAD_REQUEST)
      [] self = "InvalidRankingRule" -> ErrCode_invalid("invalid_ranking_rule", BAD_REQUEST)
      [] self = "InvalidStore" -> ErrCode_internal("invalid_store_file", INTERNAL_SERVER_ERROR)
      [] self = "MaxFieldsLimitExceeded" -> ErrCode_invalid("max_fields_limit_exceeded", BAD_REQUEST)
      [] self = "MissingDocumentId" -> ErrCode_invalid("missing_document_id", BAD_REQUEST)
      [] self = "InvalidDocumentId" -> ErrCode_invalid("invalid_document_id", BAD_REQUEST)
      [] self = "Filter" -> ErrCode_invalid("invalid_filter", BAD_REQUEST)
      [] self = "Sort" -> ErrCode_invalid("invalid_sort", BAD_REQUEST)
      [] self = "BadParameter" -> ErrCode_invalid("bad_parameter", BAD_REQUEST)
      [] self = "BadRequest" -> ErrCode_invalid("bad_request", BAD_REQUEST)
      [] self = "DatabaseSizeLimitReached" -> ErrCode_internal("database_size_limit_reached", INTERNAL_SERVER_ERROR)
      [] self = "DocumentNotFound" -> ErrCode_invalid("document_not_found", NOT_FOUND)
      [] self = "Internal" -> ErrCode_internal("internal", INTERNAL_SERVER_ERROR)
      [] self = "InvalidGeoField" -> ErrCode_invalid("invalid_geo_field", BAD_REQUEST)
      [] self = "InvalidToken" -> ErrCode_authentication("invalid_api_key", FORBIDDEN)
      [] self = "MissingAuthorizationHeader" -> ErrCode_authentication("missing_authorization_header", UNAUTHORIZED)
      [] self = "MissingMasterKey" -> ErrCode_authentication("missing_master_key", UNAUTHORIZED)
      [] self = "InvalidTaskDateFilter" -> ErrCode_invalid("invalid_task_date_filter", BAD_REQUEST)
      [] self = "InvalidTaskUidsFilter" -> ErrCode_invalid("invalid_task_uids_filter", BAD_REQUEST)
      [] self = "InvalidTaskStatusesFilter" -> ErrCode_invalid("invalid_task_statuses_filter", BAD_REQUEST)
      [] self = "InvalidTaskTypesFilter" -> ErrCode_invalid("invalid_task_types_filter", BAD_REQUEST)
      [] self = "InvalidTaskCanceledByFilter" -> ErrCode_invalid("invalid_task_canceled_by_filter", BAD_REQUEST)
      [] self = "TaskNotFound" -> ErrCode_invalid("task_not_found", NOT_FOUND)
      [] self = "TaskDeletionWithEmptyQuery" -> ErrCode_invalid("missing_task_filters", BAD_REQUEST)
      [] self = "TaskCancelationWithEmptyQuery" -> ErrCode_invalid("missing_task_filters", BAD_REQUEST)
      [] self = "DumpNotFound" -> ErrCode_invalid("dump_not_found", NOT_FOUND)
      [] self = "PayloadTooLarge" -> ErrCode_invalid("payload_too_large", PAYLOAD_TOO_LARGE)
      [] self = "RetrieveDocument" -> ErrCode_internal("unretrievable_document", BAD_REQUEST)
      [] self = "SearchDocuments" -> ErrCode_internal("search_error", BAD_REQUEST)
      [] self = "UnsupportedMediaType" -> ErrCode_invalid("unsupported_media_type", UNSUPPORTED_MEDIA_TYPE)
      [] self = "DumpAlreadyInProgress" -> ErrCode_invalid("dump_already_processing", CONFLICT)
      [] self = "DumpProcessFailed" -> ErrCode_internal("dump_process_failed", INTERNAL_SERVER_ERROR)
      [] self = "MissingContentType" -> ErrCode_invalid("missing_content_type", UNSUPPORTED_MEDIA_TYPE)
      [] self = "MalformedPayload" -> ErrCode_invalid("malformed_payload", BAD_REQUEST)
      [] self = "InvalidContentType" -> ErrCode_invalid("invalid_content_type", UNSUPPORTED_MEDIA_TYPE)
      [] self = "MissingPayload" -> ErrCode_invalid("missing_payload", BAD_REQUEST)
      [] self = "UnretrievableErrorCode" -> ErrCode_invalid("unretrievable_error_code", BAD_REQUEST)
      [] self = "ApiKeyNotFound" -> ErrCode_invalid("api_key_not_found", NOT_FOUND)
      [] self = "MissingParameter" -> ErrCode_invalid("missing_parameter", BAD_REQUEST)
      [] self = "InvalidApiKeyActions" -> ErrCode_invalid("invalid_api_key_actions", BAD_REQUEST)
      [] self = "InvalidApiKeyIndexes" -> ErrCode_invalid("invalid_api_key_indexes", BAD_REQUEST)
      [] self = "InvalidApiKeyExpiresAt" -> ErrCode_invalid("invalid_api_key_expires_at", BAD_REQUEST)
      [] self = "InvalidApiKeyDescription" -> ErrCode_invalid("invalid_api_key_description", BAD_REQUEST)
      [] self = "InvalidApiKeyName" -> ErrCode_invalid("invalid_api_key_name", BAD_REQUEST)
      [] self = "InvalidApiKeyUid" -> ErrCode_invalid("invalid_api_key_uid", BAD_REQUEST)
      [] self = "ApiKeyAlreadyExists" -> ErrCode_invalid("api_key_already_exists", CONFLICT)
      [] self = "ImmutableField" -> ErrCode_invalid("immutable_field", BAD_REQUEST)
      [] self = "InvalidMinWordLengthForTypo" -> ErrCode_invalid("invalid_min_word_length_for_typo", BAD_REQUEST)
      [] self = "DuplicateIndexFound" -> ErrCode_invalid("duplicate_index_found", BAD_REQUEST)

\* Code::http
http(self) == err_code(self).status_code

\* Code::name
name(self) == err_code(self).error_name

\* Code::type_
type_(self) == ErrorType_fmt(err_code(self).error_type)

\* a link built from the type instead of the name
url_of_type(self) == "https://docs.meilisearch.com/errors#" \o type_(self)

\* Code::url
url(self) == "https://docs.meilisearch.com/errors#" \o name(self)

(***************************************************************************)
(* ResponseError::from_msg.                                                *)
(***************************************************************************)
\* the text from_msg pushes onto the message of an IoError
IoErrorHint ==
    ". This error generally happens when you have no space left on device or when your database doesn't have read or write right."

ResponseError(code, message, error_code, error_type, error_link) ==
    [code |-> code, message |-> message, error_code |-> error_code,
     error_type |-> error_type, error_link |-> error_link]

\* from_msg without the IoError branch
from_msg_no_hint(message, code) ==
    ResponseError(http(code), message, err_code(code).error_name, type_(code), url(code))

\* from_msg whose branch also covers NoSpaceLeftOnDevice
from_msg_hint_no_space(message, code) ==
    ResponseError(http(code),
                  IF code \in {"IoError", "NoSpaceLeftOnDevice"}
                      THEN message \o IoErrorHint ELSE message,
                  err_code(code).error_name, type_(code), url(code))

from_msg(message, code) ==
    ResponseError(http(code),
                  IF code = "IoError" THEN message \o IoErrorHint ELSE message,
                  err_code(code).error_name, type_(code), url(code))

(***************************************************************************)
(* The foreign error values.  An Option is a sequence of length 0 or 1.    *)
(***************************************************************************)
\* std::io::Error: the raw OS error number, if any, and the text of the failure
IoErrors ==
    {[type |-> "io::Error", raw_os_error |-> <<n>>, detail |-> d] :
        n \in Errnos, d \in Texts}
    \cup {[type |-> "io::Error", raw_os_error |-> <<>>, detail |-> d] : d \in Texts}

\* tempfile::PersistError { error: io::Error, file }
PersistErrors == {[type |-> "tempfile::PersistError", error |-> e] : e \in IoErrors}

\* file_store::Error::{IoError, PersistError}
FileStoreErrors ==
    {[type |-> "file_store::Error", variant |-> "IoError", inner |-> e] : e \in IoErrors}
    \cup {[type |-> "file_store::Error", variant |-> "PersistError", inner |-> e] :
            e \in PersistErrors}

\* heed::MdbError
MdbErrors == {
    "KeyExist", "NotFound", "PageNotFound", "Corrupted", "Panic", "VersionMismatch",
    "Invalid", "MapFull", "DbsFull", "ReadersFull", "TlsFull", "TxnFull", "CursorFull",
    "PageFull", "MapResized", "Incompatible", "BadRslot", "BadTxn", "BadValSize",
    "BadDbi", "Other"
}

HeedUnitVariants ==
    {"Encoding", "Decoding", "InvalidDatabaseTyping", "DatabaseClosing", "BadOpenOptions"}

\* heed::Error
HeedErrors ==
    {[type |-> "HeedError", variant |-> "Mdb", mdb |-> m, text |-> t] :
        m \in MdbErrors, t \in Texts}
    \cup {[type |-> "HeedError", variant |-> "Io", inner |-> e] : e \in IoErrors}
    \cup {[type |-> "HeedError", variant |-> v, text |-> t] :
            v \in HeedUnitVariants, t \in Texts}

\* milli::UserError, the variants of the match
UserErrors == {
    "SerdeJson", "InvalidLmdbOpenOptions", "DocumentLimitReached",
    "AccessingSoftDeletedDocument", "UnknownInternalDocumentId",
    "InvalidStoreFile", "NoSpaceLeftOnDevice", "MaxDatabaseSizeReached",
    "AttributeLimitReached", "InvalidFilter", "MissingDocumentId",
    "InvalidDocumentId", "TooManyDocumentIds", "MissingPrimaryKey",
    "PrimaryKeyCannotBeChanged", "SortRankingRuleMissing",
    "InvalidFacetsDistribution", "InvalidSortableAttribute", "CriterionError",
    "InvalidGeoField", "SortError", "InvalidMinTypoWordLenSetting"
}

\* milli::Error
MilliErrors ==
    {[type |-> "milli::Error", variant |-> "InternalError", text |-> t] : t \in Texts}
    \cup {[type |-> "milli::Error", variant |-> "IoError", inner |-> e] : e \in IoErrors}
    \cup {[type |-> "milli::Error", variant |-> "UserError", error |-> u, text |-> t] :
            u \in UserErrors, t \in Texts}

\* actix_web::rt::task::JoinError
JoinErrors == {[type |-> "JoinError", text |-> t] : t \in Texts}

(***************************************************************************)
(* The ErrorCode implementations.                                          *)
(***************************************************************************)
JoinError_error_code(self) == "Internal"

\* the match without the arm for 24
io_error_code_no_24(self) ==
    CASE self.raw_os_error = <<5>> -> "IoError"
      [] self.raw_os_error = <<28>> -> "NoSpaceLeftOnDevice"
      [] OTHER -> "Internal"

\* the match whose last arm answers IoError
io_error_code_default_io_error(self) ==
    CASE self.raw_os_error = <<24>> -> "TooManyOpenFiles"
      [] self.raw_os_error = <<28>> -> "NoSpaceLeftOnDevice"
      [] OTHER -> "IoError"

io_error_code(self) ==
    CASE self.raw_os_error = <<5>> -> "IoError"
      [] self.raw_os_error = <<24>> -> "TooManyOpenFiles"
      [] self.raw_os_error = <<28>> -> "NoSpaceLeftOnDevice"
      [] OTHER -> "Internal"

\* a PersistError classified without looking at its cause
PersistError_error_code_internal(self) == "Internal"

PersistError_error_code(self) == io_error_code(self.error)

file_store_error_code(self) ==
    CASE self.variant = "IoError" -> io_error_code(self.inner)
      [] self.variant = "PersistError" -> PersistError_error_code(self.inner)

\* the match without the arm for MapFull
HeedError_error_code_no_map_full(self) ==
    CASE self.variant = "Mdb" /\ self.mdb = "Invalid" -> "InvalidStore"
      [] self.variant = "Io" -> io_error_code(self.inner)
      [] OTHER -> "Internal"

HeedError_error_code(self) ==
    CASE self.variant = "Mdb" /\ self.mdb = "MapFull" -> "DatabaseSizeLimitReached"
      [] self.variant = "Mdb" /\ self.mdb = "Invalid" -> "InvalidStore"
      [] self.variant = "Io" -> io_error_code(self.inner)
      [] self.variant = "Mdb"
         \/ self.variant \in HeedUnitVariants -> "Internal"

UserError_error_code(error) ==
    CASE error \in {"SerdeJson", "InvalidLmdbOpenOptions", "DocumentLimitReached",
                    "AccessingSoftDeletedDocument", "UnknownInternalDocumentId"}
            -> "Internal"
      [] error = "InvalidStoreFile" -> "InvalidStore"
      [] error = "NoSpaceLeftOnDevice" -> "NoSpaceLeftOnDevice"
      [] error = "MaxDatabaseSizeReached" -> "DatabaseSizeLimitReached"
      [] error = "AttributeLimitReached" -> "MaxFieldsLimitExceeded"
      [] error = "InvalidFilter" -> "Filter"
      [] error = "MissingDocumentId" -> "MissingDocumentId"
      [] error \in {"InvalidDocumentId", "TooManyDocumentIds"} -> "InvalidDocumentId"
      [] error = "MissingPrimaryKey" -> "MissingPrimaryKey"
      [] error = "PrimaryKeyCannotBeChanged" -> "PrimaryKeyAlreadyPresent"
      [] error = "SortRankingRuleMissing" -> "Sort"
      [] error = "InvalidFacetsDistribution" -> "BadRequest"
      [] error = "InvalidSortableAttribute" -> "Sort"
      [] error = "CriterionError" -> "InvalidRankingRule"
      [] error = "InvalidGeoField" -> "InvalidGeoField"
      [] error = "SortError" -> "Sort"
      [] error = "InvalidMinTypoWordLenSetting" -> "InvalidMinWordLengthForTypo"

\* the match with InvalidGeoField answered like InvalidFacetsDistribution
milli_error_code_geo_bad_request(self) ==
    CASE self.variant = "InternalError" -> "Internal"
      [] self.variant = "IoError" -> io_error_code(self.inner)
      [] self.variant = "UserError" ->
            IF self.error = "InvalidGeoField" THEN "BadRequest"
            ELSE UserError_error_code(self.error)

milli_error_code(self) ==
    CASE self.variant = "InternalError" -> "Internal"
      [] self.variant = "IoError" -> io_error_code(self.inner)
      [] self.variant = "UserError" -> UserError_error_code(self.error)

\* ErrorCode::error_code, dispatched on the type of the error
error_code(self) ==
    CASE self.type = "JoinError" -> JoinError_error_code(self)
      [] self.type = "milli::Error" -> milli_error_code(self)
      [] self.type = "file_store::Error" -> file_store_error_code(self)
      [] self.type = "tempfile::PersistError" -> PersistError_error_code(self)
      [] self.type = "HeedError" -> HeedError_error_code(self)
      [] self.type = "io::Error" -> io_error_code(self)

(***************************************************************************)
(* Display of the foreign errors (other.to_string() in From::from).        *)
(***************************************************************************)
Digit(d) == SubSeq("0123456789", d + 1, d + 1)

RECURSIVE ToDecimal(_)
\* Display of an i32
ToDecimal(n) ==
    IF n < 0 THEN "-" \o ToDecimal(0 - n)
    ELSE IF n < 10 THEN Digit(n)
    ELSE ToDecimal(n \div 10) \o Digit(n % 10)

\* an io::Error made from an OS error number displays "<detail> (os error <n>)"
io_to_string(self) ==
    IF self.raw_os_error = <<>> THEN self.detail
    ELSE self.detail \o " (os error " \o ToDecimal(self.raw_os_error[1]) \o ")"

PersistError_to_string(self) ==
    "failed to persist temporary file: " \o io_to_string(self.error)

to_string(self) ==
    CASE self.type = "io::Error" -> io_to_string(self)
      [] self.type = "tempfile::PersistError" -> PersistError_to_string(self)
      [] self.type = "file_store::Error" ->
            IF self.variant = "IoError" THEN io_to_string(self.inner)
            ELSE PersistError_to_string(self.inner)
      [] self.type \in {"HeedError", "milli::Error"}
         /\ self.variant \in {"Io", "IoError"} -> io_to_string(self.inner)
      [] OTHER -> self.text

\* the variant of a foreign error, without its payload
shape(self) ==
    CASE self.type \in {"io::Error", "tempfile::PersistError", "JoinError"} -> self.type
      [] self.type = "milli::Error" /\ self.variant = "UserError" ->
            "milli::UserError::" \o self.error
      [] self.type = "HeedError" /\ self.variant = "Mdb" -> "HeedError::Mdb::" \o self.mdb
      [] OTHER -> self.type \o "::" \o self.variant

(***************************************************************************)
(* Serialize / Deserialize derived for ResponseError, and the              *)
(* aweb::error::ResponseError implementation.  A JSON object is the        *)
(* sequence of its <<key, value>> members.                                 *)
(***************************************************************************)
\* Serialize without #[serde(skip)] on the status
to_vec_no_skip(self) ==
    << <<"code", self.code>>,
       <<"message", self.message>>,
       <<"code", self.error_code>>,
       <<"type", self.error_type>>,
       <<"link", self.error_link>> >>

\* serde_json::to_vec(self): the fields in declaration order under their
\* serde names, the skipped one left out
to_vec(self) ==
    << <<"message", self.message>>,
       <<"code", self.error_code>>,
       <<"type", self.error_type>>,
       <<"link", self.error_link>> >>

Members(json, key) == {i \in 1..Len(json) : json[i][1] = key}

Member(json, key) == json[CHOOSE i \in Members(json, key) : TRUE][2]

\* Deserialize: every field but the skipped one is required and may come
\* once; unknown keys are ignored; the skipped field takes StatusCode::default()
from_slice(json) ==
    IF \A key \in {"message", "code", "type", "link"} :
           Cardinality(Members(json, key)) = 1
    THEN [ok |-> TRUE,
          value |-> ResponseError(OK, Member(json, "message"), Member(json, "code"),
                                  Member(json, "type"), Member(json, "link"))]
    ELSE [ok |-> FALSE]

status_code(self) == self.code

error_response(self) ==
    [status |-> status_code(self), content_type |-> "application/json",
     body |-> to_vec(self)]

(***************************************************************************)
(* The request handler.                                                    *)
(***************************************************************************)
\* the locals of a context that is not converting an error
CtxIdle ==
    [pc |-> "idle", other |-> <<>>, message |-> "", code |-> "NoCode", resp |-> <<>>]

\* main before its first statement
BootStart == [pc |-> "try_build", opt |-> <<>>, steps |-> <<>>, result |-> "Running"]

Init ==
    /\ pc = "idle"
    /\ cur_err = <<>>
    /\ cur_msg = ""
    /\ cur_code = "NoCode"
    /\ resp = <<>>
    /\ response = <<>>
    /\ parsed = <<>>
    /\ prev = <<>>
    /\ ctx = [c \in Contexts |-> CtxIdle]
    /\ boot = BootStart

\* impl<T: ErrorCode> From<T> for ResponseError
From(other) ==
    /\ pc = "idle"
    /\ cur_err' = <<other>>
    /\ cur_msg' = to_string(other)
    /\ cur_code' = error_code(other)
    /\ resp' = <<from_msg(to_string(other), error_code(other))>>
    /\ pc' = "built"
    /\ UNCHANGED <<response, parsed, prev, outside_handler>>

FromJoinError == \E other \in JoinErrors : From(other)

FromMilliError == \E other \in MilliErrors : From(other)

FromFileStoreError == \E other \in FileStoreErrors : From(other)

FromPersistError == \E other \in PersistErrors : From(other)

FromHeedError == \E other \in HeedErrors : From(other)

FromIoError == \E other \in IoErrors : From(other)

\* a direct call of ResponseError::from_msg
FromMsg ==
    /\ pc = "idle"
    /\ \E message \in Texts, code \in Code :
          /\ cur_err' = <<>>
          /\ cur_msg' = message
          /\ cur_code' = code
          /\ resp' = <<from_msg(message, code)>>
    /\ pc' = "built"
    /\ UNCHANGED <<response, parsed, prev, outside_handler>>

\* the transport renders the envelope
ErrorResponse ==
    /\ pc = "built"
    /\ response' = <<error_response(resp[1])>>
    /\ pc' = "responded"
    /\ UNCHANGED <<cur_err, cur_msg, cur_code, resp, parsed, prev, outside_handler>>

\* the receiver of the body deserializes it
Deserialize ==
    /\ pc = "responded"
    /\ parsed' = <<from_slice(response[1].body)>>
    /\ pc' = "parsed"
    /\ UNCHANGED <<cur_err, cur_msg, cur_code, resp, response, prev, outside_handler>>

\* the envelope is discarded; what it was built from is remembered
Drop ==
    /\ pc \in {"responded", "parsed"}
    /\ prev' = <<[shape |-> IF cur_err = <<>> THEN "from_msg" ELSE shape(cur_err[1]),
                  code |-> cur_code,
                  error_code |-> resp[1].error_code]>>
    /\ pc' = "idle"
    /\ cur_err' = <<>>
    /\ cur_msg' = ""
    /\ cur_code' = "NoCode"
    /\ resp' = <<>>
    /\ response' = <<>>
    /\ parsed' = <<>>
    /\ UNCHANGED outside_handler

Next ==
    \/ FromJoinError
    \/ FromMilliError
    \/ FromFileStoreError
    \/ FromPersistError
    \/ FromHeedError
    \/ FromIoError
    \/ FromMsg
    \/ ErrorResponse
    \/ Deserialize
    \/ Drop

Spec == Init /\ [][Next]_vars

(***************************************************************************)
(* Several execution contexts convert errors at the same time.  A call of  *)
(* From::from evaluates other.to_string(), then other.error_code(), then   *)
(* from_msg; the calls of the contexts interleave step by step.            *)
(***************************************************************************)
\* the errors the contexts convert: some of each kind of outcome
ConcurrentErrors ==
    {e \in IoErrors :
        /\ e.detail = "disk failure"
        /\ e.raw_os_error \in {<<>>, <<2>>, <<5>>, <<24>>, <<28>>}}
    \cup {e \in HeedErrors :
            /\ e.variant = "Mdb"
            /\ e.mdb \in {"MapFull", "Invalid", "NotFound"}
            /\ e.text = "disk failure"}
    \cup {e \in MilliErrors :
            /\ e.variant = "UserError"
            /\ e.error \in {"InvalidFilter", "SerdeJson"}
            /\ e.text = "index foo not found"}
    \cup JoinErrors

\* context c is handed an error to convert
CtxCall(c) ==
    /\ ctx[c].pc = "idle"
    /\ \E other \in ConcurrentErrors :
          ctx' = [ctx EXCEPT ![c] = [CtxIdle EXCEPT !.pc = "to_string",
                                                   !.other = <<other>>]]
    /\ UNCHANGED outside_contexts

\* other.to_string()
CtxToString(c) ==
    /\ ctx[c].pc = "to_string"
    /\ ctx' = [ctx EXCEPT ![c].message = to_string(ctx[c].other[1]),
                          ![c].pc = "error_code"]
    /\ UNCHANGED outside_contexts

\* a classification that leaves its Code in a slot all contexts share
CtxErrorCode_shared_slot(c) ==
    /\ ctx[c].pc = "error_code"
    /\ ctx' = [k \in Contexts |->
                 IF k = c
                 THEN [ctx[k] EXCEPT !.code = error_code(ctx[c].other[1]),
                                     !.pc = "from_msg"]
                 ELSE [ctx[k] EXCEPT !.code = error_code(ctx[c].other[1])]]
    /\ UNCHANGED outside_contexts

\* other.error_code()
CtxErrorCode(c) ==
    /\ ctx[c].pc = "error_code"
    /\ ctx' = [ctx EXCEPT ![c].code = error_code(ctx[c].other[1]),
                          ![c].pc = "from_msg"]
    /\ UNCHANGED outside_contexts

\* Self::from_msg(message, code)
CtxFromMsg(c) ==
    /\ ctx[c].pc = "from_msg"
    /\ ctx' = [ctx EXCEPT ![c].resp = <<from_msg(ctx[c].message, ctx[c].code)>>,
                          ![c].pc = "done"]
    /\ UNCHANGED outside_contexts

\* the call returns its ResponseError
CtxReturn(c) ==
    /\ ctx[c].pc = "done"
    /\ ctx' = [ctx EXCEPT ![c] = CtxIdle]
    /\ UNCHANGED outside_contexts

NextConcurrent ==
    \E c \in Contexts :
        \/ CtxCall(c)
        \/ CtxToString(c)
        \/ CtxErrorCode(c)
        \/ CtxFromMsg(c)
        \/ CtxReturn(c)

SpecConcurrent == Init /\ [][NextConcurrent]_vars

(***************************************************************************)
(* main (src/meilisearch/src/main.rs).  Of a master key only its length is *)
(* read.  boot.steps lists what main has done so far.                      *)
(***************************************************************************)
\* the options Opt::try_build can return
Opts ==
    [generate_master_key : BOOLEAN,
     env : {"development", "production"},
     master_key : {<<>>} \cup {<<n>> : n \in 0..MaxKeyLen}]

\* main goes on to `to` having done `step`
Proceed(step, to) ==
    boot' = [boot EXCEPT !.pc = to, !.steps = Append(@, step)]

\* main returns `result` having done `step`
Return(step, result) ==
    boot' = [boot EXCEPT !.pc = "exited", !.steps = Append(@, step), !.result = result]

\* let (opt, config_read_from) = Opt::try_build()?;
MainTryBuild ==
    /\ boot.pc = "try_build"
    /\ \/ \E opt \in Opts :
             boot' = [boot EXCEPT !.pc = "setup", !.opt = <<opt>>,
                                  !.steps = Append(@, "Opt::try_build")]
       \/ Return("Opt::try_build", "Err")
    /\ UNCHANGED outside_main

\* setup(&opt)?; setup ends in Ok(())
MainSetup ==
    /\ boot.pc = "setup"
    /\ Proceed("setup", "generate_master_key")
    /\ UNCHANGED outside_main

\* if opt.generate_master_key { println!(..); return Ok(()); }
MainGenerateMasterKey ==
    /\ boot.pc = "generate_master_key"
    /\ IF boot.opt[1].generate_master_key
       THEN Return("println generate_master_key", "Ok")
       ELSE boot' = [boot EXCEPT !.pc = "match_master_key"]
    /\ UNCHANGED outside_main

\* the match without its ("production", None) arm
MainMatchMasterKey_no_missing_arm ==
    /\ boot.pc = "match_master_key"
    /\ LET opt == boot.opt[1] IN
       IF /\ opt.env = "production"
          /\ opt.master_key # <<>>
          /\ opt.master_key[1] < MASTER_KEY_MIN_SIZE
       THEN Return("match master_key", "Err")
       ELSE Proceed("match master_key", "setup_meilisearch")
    /\ UNCHANGED outside_main

\* match (opt.env.as_ref(), &opt.master_key) { .. }
MainMatchMasterKey ==
    /\ boot.pc = "match_master_key"
    /\ LET opt == boot.opt[1] IN
       IF /\ opt.env = "production"
          /\ opt.master_key # <<>>
          /\ opt.master_key[1] < MASTER_KEY_MIN_SIZE
       THEN Return("match master_key", "Err")
       ELSE IF opt.env = "production" /\ opt.master_key = <<>>
       THEN Return("match master_key", "Err")
       ELSE Proceed("match master_key", "setup_meilisearch")
    /\ UNCHANGED outside_main

\* let (index_scheduler, auth_controller) = setup_meilisearch(&opt)?;
MainSetupMeilisearch ==
    /\ boot.pc = "setup_meilisearch"
    /\ \/ Proceed("setup_meilisearch", "print_launch_resume")
       \/ Return("setup_meilisearch", "Err")
    /\ UNCHANGED outside_main

\* the analytics are made, then print_launch_resume(..)
MainPrintLaunchResume ==
    /\ boot.pc = "print_launch_resume"
    /\ Proceed("print_launch_resume", "run_http")
    /\ UNCHANGED outside_main

\* run_http(..).await?: the server is built and bound, which can fail
\* (get_ssl_config, bind), and then runs
MainRunHttp ==
    /\ boot.pc = "run_http"
    /\ \/ Proceed("run_http", "serving")
       \/ Return("run_http", "Err")
    /\ UNCHANGED outside_main

\* the server stops: run().await gives Ok or an error
MainServerStops ==
    /\ boot.pc = "serving"
    /\ \E result \in {"Ok", "Err"} :
          boot' = [boot EXCEPT !.pc = "exited", !.result = result]
    /\ UNCHANGED outside_main

NextMain ==
    \/ MainTryBuild
    \/ MainSetup
    \/ MainGenerateMasterKey
    \/ MainMatchMasterKey
    \/ MainSetupMeilisearch
    \/ MainPrintLaunchResume
    \/ MainRunHttp
    \/ MainServerStops

SpecMain == Init /\ [][NextMain]_vars

(***************************************************************************)
(* Properties.                                                             *)
(***************************************************************************)
EndsWith(s, suffix) ==
    /\ Len(s) >= Len(suffix)
    /\ SubSeq(s, Len(s) - Len(suffix) + 1, Len(s)) = suffix

SnakeChars == {
    "a", "b", "c", "d", "e", "f", "g", "h", "i", "j", "k", "l", "m",
    "n", "o", "p", "q", "r", "s", "t", "u", "v", "w", "x", "y", "z",
    "0", "1", "2", "3", "4", "5", "6", "7", "8", "9", "_"
}

SnakeCase(s) == \A i \in 1..Len(s) : SubSeq(s, i, i) \in SnakeChars

\* this conversion and the previous one were both made, from distinct Codes
TwoCodes == prev # <<>> /\ resp # <<>> /\ prev[1].code # cur_code

\* C1 as stated: the stable name is injective over the catalog: two
\* envelopes built from distinct Codes never carry the same stable name.
C1_StableNameInjective ==
    TwoCodes => prev[1].error_code # resp[1].error_code

\* C1 amended: two distinct Codes share a stable name exactly when they are
\* TaskDeletionWithEmptyQuery and TaskCancelationWithEmptyQuery (both
\* "missing_task_filters"); the name is injective over the rest of the catalog.
C1_StableNameInjectiveButTaskFilters ==
    TwoCodes =>
        (prev[1].error_code = resp[1].error_code
            <=> /\ {prev[1].code, cur_code}
                     = {"TaskDeletionWithEmptyQuery", "TaskCancelationWithEmptyQuery"}
                /\ resp[1].error_code = "missing_task_filters")

C1_Witness ==
    /\ TwoCodes
    /\ prev[1].code = "TaskNotFound"
    /\ cur_code = "TaskDeletionWithEmptyQuery"
    /\ prev[1].error_code = "task_not_found"
    /\ resp[1].error_code = "missing_task_filters"

\* C2 as stated: from_msg(msg, IoError) yields msg followed by a space and
\* the hint sentence; from_msg(msg, any other Code) yields msg unchanged.
C2_HintAfterSpace ==
    resp # <<>> =>
        resp[1].message =
            IF cur_code = "IoError"
            THEN cur_msg \o " This error generally happens when you have no space left on device or when your database doesn't have read or write right."
            ELSE cur_msg

\* C2 amended: from_msg(msg, IoError) yields msg followed by a full stop, a
\* space and the hint sentence, appended exactly once; from_msg(msg, any
\* other Code) yields msg unchanged.
C2_HintAfterFullStop ==
    resp # <<>> =>
        resp[1].message =
            IF cur_code = "IoError"
            THEN cur_msg \o ". This error generally happens when you have no space left on device or when your database doesn't have read or write right."
            ELSE cur_msg

C2_Witness ==
    /\ pc = "built"
    /\ cur_err = <<>>
    /\ cur_code = "IoError"
    /\ cur_msg = "disk failure"
    /\ Len(resp[1].message) > Len(cur_msg)

Wire(r) == <<r.error_code, r.error_type, r.code>>

\* C3: the representative wire mappings (stable name, type, HTTP status)
\* hold exactly for the envelopes built from the six Codes.
C3_WireMappings ==
    resp # <<>> =>
        /\ cur_code = "IndexNotFound" =>
              Wire(resp[1]) = <<"index_not_found", "invalid_request", 404>>
        /\ cur_code = "DatabaseSizeLimitReached" =>
              Wire(resp[1]) = <<"database_size_limit_reached", "internal", 500>>
        /\ cur_code = "PayloadTooLarge" =>
              Wire(resp[1]) = <<"payload_too_large", "invalid_request", 413>>
        /\ cur_code = "InvalidToken" =>
              Wire(resp[1]) = <<"invalid_api_key", "auth", 403>>
        /\ cur_code = "MissingAuthorizationHeader" =>
              Wire(resp[1]) = <<"missing_authorization_header", "auth", 401>>
        /\ cur_code = "Internal" =>
              Wire(resp[1]) = <<"internal", "internal", 500>>

C3_Witness ==
    /\ pc = "responded"
    /\ cur_code = "InvalidToken"
    /\ resp[1].error_code = "invalid_api_key"
    /\ response[1].status = 403

WellFormed(m) ==
    /\ DOMAIN m = {"status_code", "error_type", "error_name"}
    /\ m.error_type \in ErrorType
    /\ ErrorType_fmt(m.error_type) \in {"internal", "invalid_request", "auth"}
    /\ m.status_code \in 100..599
    /\ m.error_name # ""
    /\ SnakeCase(m.error_name)

\* C4: every Code has a catalog entry with one category among internal,
\* invalid_request and auth, an HTTP status in 100..599 and a non-empty
\* snake_case stable name; every envelope carries exactly these.
C4_CatalogWellFormed ==
    /\ pc = "idle" => \A c \in Code : WellFormed(err_code(c))
    /\ resp # <<>> =>
          /\ cur_code \in Code
          /\ resp[1].error_type \in {"internal", "invalid_request", "auth"}
          /\ resp[1].code \in 100..599
          /\ resp[1].error_code # ""
          /\ SnakeCase(resp[1].error_code)

C4_Witness ==
    /\ pc = "built"
    /\ cur_code = "MissingMasterKey"
    /\ resp[1].error_type = "auth"
    /\ resp[1].code = 401
    /\ resp[1].error_code = "missing_master_key"

IsA(type) == cur_err # <<>> /\ cur_err[1].type = type

\* C5: an io::Error with raw OS error 5 classifies to IoError, 24 to
\* TooManyOpenFiles, 28 to NoSpaceLeftOnDevice, and any other number (such
\* as 2) or no OS number to Internal.
C5_OsNumberClassification ==
    IsA("io::Error") =>
        LET os == cur_err[1].raw_os_error IN
        /\ os = <<5>> => cur_code = "IoError"
        /\ os = <<24>> => cur_code = "TooManyOpenFiles"
        /\ os = <<28>> => cur_code = "NoSpaceLeftOnDevice"
        /\ os = <<2>> => cur_code = "Internal"
        /\ os = <<>> => cur_code = "Internal"
        /\ os \notin {<<5>>, <<24>>, <<28>>} => cur_code = "Internal"

C5_Witness ==
    /\ IsA("io::Error")
    /\ cur_err[1].raw_os_error = <<24>>
    /\ cur_code = "TooManyOpenFiles"

\* C6 as stated: an io::Error with errno 28 classifies to
\* NoSpaceLeftOnDevice, its status is 422 and the message of its envelope
\* ends with the hint sentence.
C6_DiskFullEndsWithHint ==
    IsA("io::Error") /\ cur_err[1].raw_os_error = <<28>> =>
        /\ cur_code = "NoSpaceLeftOnDevice"
        /\ resp[1].code = 422
        /\ EndsWith(resp[1].message,
                    "This error generally happens when you have no space left on device or when your database doesn't have read or write right.")

\* C6 amended: an io::Error with errno 28 classifies to
\* NoSpaceLeftOnDevice, its status is 422 and the message of its envelope
\* is the error's own text, "<detail> (os error 28)", without the hint.
C6_DiskFullKeepsText ==
    IsA("io::Error") /\ cur_err[1].raw_os_error = <<28>> =>
        /\ cur_code = "NoSpaceLeftOnDevice"
        /\ resp[1].code = 422
        /\ resp[1].message = cur_err[1].detail \o " (os error 28)"

C6_Witness ==
    /\ IsA("io::Error")
    /\ cur_err[1].raw_os_error = <<28>>
    /\ pc = "responded"
    /\ response[1].status = 422
    /\ resp[1].message = "disk failure (os error 28)"

\* C7: a HeedError classifies to DatabaseSizeLimitReached (status 500) when
\* the map is full, to InvalidStore when the database is invalid, to what
\* the io::Error rule gives its inner I/O error, and to Internal otherwise.
C7_StorageClassification ==
    IsA("HeedError") =>
        LET e == cur_err[1] IN
        /\ e.variant = "Mdb" /\ e.mdb = "MapFull" =>
              cur_code = "DatabaseSizeLimitReached" /\ resp[1].code = 500
        /\ e.variant = "Mdb" /\ e.mdb = "Invalid" => cur_code = "InvalidStore"
        /\ e.variant = "Io" => cur_code = io_error_code(e.inner)
        /\ e.variant = "Mdb" /\ e.mdb \notin {"MapFull", "Invalid"} =>
              cur_code = "Internal"
        /\ e.variant \in {"Encoding", "Decoding", "InvalidDatabaseTyping",
                          "DatabaseClosing", "BadOpenOptions"} =>
              cur_code = "Internal"

C7_Witness ==
    /\ IsA("HeedError")
    /\ cur_err[1].variant = "Mdb"
    /\ cur_err[1].mdb = "MapFull"
    /\ cur_code = "DatabaseSizeLimitReached"
    /\ pc = "responded"
    /\ response[1].status = 500

\* the milli UserError variants the match answers with Internal
Collapsed == {"SerdeJson", "InvalidLmdbOpenOptions", "DocumentLimitReached",
              "AccessingSoftDeletedDocument", "UnknownInternalDocumentId"}

UserShape(u) == "milli::UserError::" \o u

IsUserError ==
    IsA("milli::Error") /\ cur_err[1].variant = "UserError"

\* the previous and the current error are distinct UserError variants,
\* neither of them collapsed
TwoUserErrors ==
    /\ prev # <<>>
    /\ IsUserError
    /\ cur_err[1].error \notin Collapsed
    /\ \E u \in UserErrors \ Collapsed :
          u # cur_err[1].error /\ prev[1].shape = UserShape(u)

\* C8 as stated: two distinct milli UserError variants that are not
\* collapsed to Internal never classify to the same Code.
C8_ValidationOneToOne ==
    TwoUserErrors => prev[1].code # cur_code

DocumentIdGroup == {"InvalidDocumentId", "TooManyDocumentIds"}

SortGroup == {"SortRankingRuleMissing", "InvalidSortableAttribute", "SortError"}

\* C8 amended: a UserError variant that is not collapsed classifies to a
\* Code other than Internal (missing primary key to MissingPrimaryKey,
\* invalid filter to Filter, attribute limit reached to
\* MaxFieldsLimitExceeded), and two distinct such variants classify to the
\* same Code exactly when both are among InvalidDocumentId and
\* TooManyDocumentIds, or both among SortRankingRuleMissing,
\* InvalidSortableAttribute and SortError.
C8_ValidationOneToOneButGroups ==
    /\ IsUserError /\ cur_err[1].error \notin Collapsed =>
          /\ cur_code # "Internal"
          /\ cur_err[1].error = "MissingPrimaryKey" => cur_code = "MissingPrimaryKey"
          /\ cur_err[1].error = "InvalidFilter" => cur_code = "Filter"
          /\ cur_err[1].error = "AttributeLimitReached" =>
                cur_code = "MaxFieldsLimitExceeded"
    /\ TwoUserErrors =>
          (prev[1].code = cur_code
              <=> \E g \in {DocumentIdGroup, SortGroup} :
                      /\ cur_err[1].error \in g
                      /\ prev[1].shape \in {UserShape(u) : u \in g})

C8_Witness ==
    /\ TwoUserErrors
    /\ prev[1].shape = UserShape("InvalidFilter")
    /\ prev[1].code = "Filter"
    /\ cur_err[1].error = "MissingPrimaryKey"
    /\ cur_code = "MissingPrimaryKey"

Keys(json) == [i \in 1..Len(json) |-> json[i][1]]

\* C9: deserializing the serialized envelope gives back its message, code,
\* type and link; the body has exactly these four keys, and the HTTP status
\* is carried by status_code() alone.
C9_RoundTrip ==
    /\ response # <<>> =>
          /\ Keys(response[1].body) = <<"message", "code", "type", "link">>
          /\ response[1].status = resp[1].code
    /\ parsed # <<>> =>
          /\ parsed[1].ok
          /\ parsed[1].value.message = resp[1].message
          /\ parsed[1].value.error_code = resp[1].error_code
          /\ parsed[1].value.error_type = resp[1].error_type
          /\ parsed[1].value.error_link = resp[1].error_link

C9_Witness ==
    /\ pc = "parsed"
    /\ parsed[1].ok
    /\ resp[1].code = 404
    /\ parsed[1].value.error_code = "index_not_found"
    /\ parsed[1].value.message = "index foo not found"

\* the io::Error a persistence failure wraps
Cause(e) ==
    CASE e.type = "tempfile::PersistError" -> e.error
      [] e.type = "file_store::Error" /\ e.variant = "IoError" -> e.inner
      [] e.type = "file_store::Error" /\ e.variant = "PersistError" -> e.inner.error

\* C10: a file_store::Error and a tempfile::PersistError classify to the
\* Code the io::Error rule gives the I/O error they wrap, one of IoError,
\* TooManyOpenFiles, NoSpaceLeftOnDevice and Internal.
C10_PersistenceUnwraps ==
    IsA("file_store::Error") \/ IsA("tempfile::PersistError") =>
        /\ cur_code = io_error_code(Cause(cur_err[1]))
        /\ cur_code \in {"IoError", "TooManyOpenFiles", "NoSpaceLeftOnDevice", "Internal"}

C10_Witness ==
    /\ IsA("file_store::Error")
    /\ cur_err[1].variant = "PersistError"
    /\ cur_err[1].inner.error.raw_os_error = <<24>>
    /\ cur_code = "TooManyOpenFiles"

\* the current error is one of the shapes without a rule of its own
Unlisted ==
    /\ cur_err # <<>>
    /\ LET e == cur_err[1] IN
       \/ e.type = "JoinError"
       \/ e.type = "milli::Error" /\ e.variant = "InternalError"
       \/ e.type = "io::Error" /\ e.raw_os_error \notin {<<5>>, <<24>>, <<28>>}
       \/ e.type = "HeedError" /\ e.variant = "Mdb" /\ e.mdb \notin {"MapFull", "Invalid"}
       \/ e.type = "HeedError" /\ e.variant \in HeedUnitVariants

\* the text of an error without a rule of its own, as its Display gives it
OwnText(e) ==
    IF e.type # "io::Error" THEN e.text
    ELSE IF e.raw_os_error = <<>> THEN e.detail
    ELSE e.detail \o " (os error " \o ToDecimal(e.raw_os_error[1]) \o ")"

\* C11: an error without a rule of its own (a JoinError, a milli
\* InternalError, an io::Error with an unlisted or no OS number, an unlisted
\* storage condition) classifies to Internal and its envelope has status
\* 500, type internal and the error's own text as message; every error
\* classifies to some Code.
C11_FallbackToInternal ==
    /\ cur_err # <<>> => cur_code \in Code
    /\ Unlisted =>
          /\ cur_code = "Internal"
          /\ resp[1].code = 500
          /\ resp[1].error_type = "internal"
          /\ resp[1].error_code = "internal"
          /\ resp[1].message = OwnText(cur_err[1])

C11_Witness ==
    /\ Unlisted
    /\ cur_err[1].type = "io::Error"
    /\ cur_err[1].raw_os_error = <<2>>
    /\ pc = "responded"
    /\ response[1].status = 500
    /\ resp[1].message = "disk failure (os error 2)"

\* C12: the documentation link of every Code is
\* "https://docs.meilisearch.com/errors#" followed by its stable name, and
\* the link of every envelope is that derivation from the envelope's code.
C12_DocLink ==
    /\ pc = "idle" =>
          \A c \in Code :
              url(c) = "https://docs.meilisearch.com/errors#" \o err_code(c).error_name
    /\ resp # <<>> =>
          resp[1].error_link
              = "https://docs.meilisearch.com/errors#" \o resp[1].error_code

C12_Witness ==
    /\ pc = "built"
    /\ cur_code = "IndexNotFound"
    /\ resp[1].error_code = "index_not_found"
    /\ resp[1].error_link = "https://docs.meilisearch.com/errors#index_not_found"

\* C13: whatever the interleaving of the contexts' calls, each call's
\* message, Code and ResponseError are those of the same call made alone:
\* the text of its own error, the Code of its own error, and from_msg of
\* these two.
C13_InterleavingIndependent ==
    \A c \in Contexts :
        LET l == ctx[c] IN
        /\ l.pc \in {"error_code", "from_msg", "done"} =>
              l.message = to_string(l.other[1])
        /\ l.pc \in {"from_msg", "done"} => l.code = error_code(l.other[1])
        /\ l.pc = "done" =>
              l.resp = <<from_msg(to_string(l.other[1]), error_code(l.other[1]))>>

\* two calls in flight at once, on different errors, one finished while the
\* other is between its classification and its from_msg
C13_Witness ==
    /\ ctx[1].pc = "done"
    /\ ctx[2].pc = "from_msg"
    /\ ctx[1].other[1].type = "io::Error"
    /\ ctx[1].other[1].raw_os_error = <<5>>
    /\ ctx[2].other[1].type = "JoinError"
    /\ ctx[1].resp[1].error_code = "io_error"
    /\ ctx[2].code = "Internal"

Did(step) == \E i \in 1..Len(boot.steps) : boot.steps[i] = step

\* the position of the first `step` in boot.steps
When(step) == CHOOSE i \in 1..Len(boot.steps) : boot.steps[i] = step

\* the master key passes in the environment of the options
KeyAccepted(opt) ==
    opt.env = "production" =>
        opt.master_key # <<>> /\ opt.master_key[1] >= MASTER_KEY_MIN_SIZE

\* C14: setup_meilisearch and run_http are reached only with the
\* generate-master-key flag off and, in production, a master key of at
\* least MASTER_KEY_MIN_SIZE characters, the engine before the server; with
\* the flag on main prints a key and returns Ok without looking at the
\* master key; in production with no key or a short one main returns an
\* error and starts neither.
C14_StartupOrdering ==
    /\ Did("setup_meilisearch") \/ Did("run_http") =>
          /\ ~boot.opt[1].generate_master_key
          /\ KeyAccepted(boot.opt[1])
          /\ Did("match master_key")
          /\ When("match master_key") < When("setup_meilisearch")
    /\ Did("run_http") => When("setup_meilisearch") < When("run_http")
    /\ boot.pc = "exited" /\ boot.opt # <<>> /\ boot.opt[1].generate_master_key =>
          /\ boot.result = "Ok"
          /\ Did("println generate_master_key")
          /\ ~Did("match master_key")
          /\ ~Did("setup_meilisearch") /\ ~Did("run_http")
    /\ /\ boot.pc = "exited"
       /\ boot.opt # <<>>
       /\ ~boot.opt[1].generate_master_key
       /\ ~KeyAccepted(boot.opt[1])
       => /\ boot.result = "Err"
          /\ ~Did("setup_meilisearch") /\ ~Did("run_http")

\* the server runs in production under a key of exactly the least size
C14_Witness ==
    /\ boot.pc = "serving"
    /\ boot.opt[1].env = "production"
    /\ boot.opt[1].master_key = <<MASTER_KEY_MIN_SIZE>>
    /\ boot.steps = <<"Opt::try_build", "setup", "match master_key",
                      "setup_meilisearch", "print_launch_resume", "run_http">>

====
